---- MODULE Spec2Model ----
(***************************************************************************)
(* A model of ytcc.py: the transcript acquisition controller               *)
(* (get_transcript_with_yt_dlp, try_fallback_mode), the subtitle file      *)
(* selector and the caption parsers.                                       *)
(*                                                                         *)
(* Text is modelled as a sequence of one-character strings, so that        *)
(* strip, split, substring tests and the tag regex are computed the way    *)
(* the Python code computes them.                                          *)
(***************************************************************************)
EXTENDS Integers, Sequences, FiniteSets, TLC

(***************************************************************************)
(* Text primitives (Python str methods used by the program)                *)
(***************************************************************************)

\* The value Python's None is modelled by: a sequence that is no text, since
\* no element of a text is longer than one character.
None == <<"None">>

Digits == {"0", "1", "2", "3", "4", "5", "6", "7", "8", "9"}

\* str.isspace for one character.
IsSpace(c) == c \in {" ", "\t", "\n", "\r"}

\* s[i:] in Python terms, with i counted from 1.
Tail_(s, i) == SubSeq(s, i, Len(s))

RECURSIVE LStrip(_)
LStrip(s) ==
    IF s = <<>> THEN <<>>
    ELSE IF IsSpace(s[1]) THEN LStrip(Tail(s)) ELSE s

RECURSIVE RStrip(_)
RStrip(s) ==
    IF s = <<>> THEN <<>>
    ELSE IF IsSpace(s[Len(s)]) THEN RStrip(SubSeq(s, 1, Len(s) - 1)) ELSE s

\* str.strip()
Strip(s) == RStrip(LStrip(s))

\* str.startswith(p)
StartsWith(s, p) == Len(p) <= Len(s) /\ SubSeq(s, 1, Len(p)) = p

\* str.endswith(p)
EndsWith(s, p) == Len(p) <= Len(s) /\ SubSeq(s, Len(s) - Len(p) + 1, Len(s)) = p

\* p in s
Contains(s, p) ==
    \E i \in 1..(Len(s) - Len(p) + 1) : SubSeq(s, i, i + Len(p) - 1) = p

\* str.isdigit(): non-empty and every character a digit.
IsDigitStr(s) == s # <<>> /\ \A i \in 1..Len(s) : s[i] \in Digits

\* s.split(sep) for a one-character separator: always at least one piece.
RECURSIVE SplitFrom(_, _, _)
SplitFrom(s, sep, cur) ==
    IF s = <<>> THEN <<cur>>
    ELSE IF s[1] = sep THEN <<cur>> \o SplitFrom(Tail(s), sep, <<>>)
    ELSE SplitFrom(Tail(s), sep, Append(cur, s[1]))

Split(s, sep) == SplitFrom(s, sep, <<>>)

\* sep.join(parts)
RECURSIVE Join(_, _)
Join(parts, sep) ==
    IF parts = <<>> THEN <<>>
    ELSE IF Len(parts) = 1 THEN parts[1]
    ELSE parts[1] \o sep \o Join(Tail(parts), sep)

\* str.lower() for one character (ASCII letters).
UpperAlpha ==
    <<"A","B","C","D","E","F","G","H","I","J","K","L","M",
      "N","O","P","Q","R","S","T","U","V","W","X","Y","Z">>
LowerAlpha ==
    <<"a","b","c","d","e","f","g","h","i","j","k","l","m",
      "n","o","p","q","r","s","t","u","v","w","x","y","z">>

LowerChar(c) ==
    IF \E i \in 1..26 : UpperAlpha[i] = c
    THEN LowerAlpha[CHOOSE i \in 1..26 : UpperAlpha[i] = c]
    ELSE c

Lower(s) == [i \in 1..Len(s) |-> LowerChar(s[i])]

\* The least index j > i with s[j] = ">", or 0 when there is none.
NextClose(s, i) ==
    IF \E j \in (i + 1)..Len(s) : s[j] = ">"
    THEN CHOOSE j \in (i + 1)..Len(s) :
             s[j] = ">" /\ \A k \in (i + 1)..(j - 1) : s[k] # ">"
    ELSE 0

\* re.sub(r'<[^>]+>', '', s): leftmost non-overlapping matches; a match at
\* a "<" needs at least one character other than ">" and then a ">".
RECURSIVE SubTagsFrom(_, _)
SubTagsFrom(s, i) ==
    IF i > Len(s) THEN <<>>
    ELSE IF s[i] = "<" /\ NextClose(s, i) > i + 1
         THEN SubTagsFrom(s, NextClose(s, i) + 1)
         ELSE <<s[i]>> \o SubTagsFrom(s, i + 1)

\* A substitution that leaves the tags in.
SubTagsNothing(s) == s

SubTags(s) == SubTagsFrom(s, 1)

(***************************************************************************)
(* Caption parsers                                                         *)
(***************************************************************************)

W_ARROW  == <<"-","-",">">>

\* parse_srt's test for a line to skip (after line.strip()).
SrtSkips(line) == line = <<>> \/ IsDigitStr(line) \/ Contains(line, W_ARROW)

\* A test of parse_vtt that keeps the lines of digits, which a WebVTT file
\* does not need.
VttSkipsKeepingDigits(line) ==
    \/ line = <<>>
    \/ StartsWith(line, <<"W","E","B","V","T","T">>)
    \/ StartsWith(line, <<"N","O","T","E">>)
    \/ Contains(line, W_ARROW)
    \/ StartsWith(line, <<"<">>)

\* parse_vtt's test for a line to skip (after line.strip()).
VttSkips(line) ==
    \/ line = <<>>
    \/ StartsWith(line, <<"W","E","B","V","T","T">>)
    \/ StartsWith(line, <<"N","O","T","E">>)
    \/ Contains(line, W_ARROW)
    \/ StartsWith(line, <<"<">>)
    \/ IsDigitStr(line)

\* A loop that keeps a line each time it occurs.
RECURSIVE ParseLoopKeepingAll(_, _, _, _, _)
ParseLoopKeepingAll(raw, i, lines, seen_lines, isVtt) ==
    IF i > Len(raw) THEN lines
    ELSE LET line == Strip(raw[i])
             skip == IF isVtt THEN VttSkips(line) ELSE SrtSkips(line)
             cleaned_line == Strip(SubTags(line))
         IN  IF ~skip /\ cleaned_line # <<>>
             THEN ParseLoopKeepingAll(raw, i + 1, Append(lines, cleaned_line),
                                      seen_lines \cup {cleaned_line}, isVtt)
             ELSE ParseLoopKeepingAll(raw, i + 1, lines, seen_lines, isVtt)

\* The body of both parsers' loop from raw line i on: lines is the list
\* built so far, seen_lines the set of lines already kept; isVtt picks the
\* skip test.
RECURSIVE ParseLoop(_, _, _, _, _)
ParseLoop(raw, i, lines, seen_lines, isVtt) ==
    IF i > Len(raw) THEN lines
    ELSE LET line == Strip(raw[i])
             skip == IF isVtt THEN VttSkips(line) ELSE SrtSkips(line)
             cleaned_line == Strip(SubTags(line))
         IN  IF skip THEN ParseLoop(raw, i + 1, lines, seen_lines, isVtt)
             ELSE IF cleaned_line # <<>> /\ cleaned_line \notin seen_lines
                  THEN ParseLoop(raw, i + 1, Append(lines, cleaned_line),
                                 seen_lines \cup {cleaned_line}, isVtt)
                  ELSE ParseLoop(raw, i + 1, lines, seen_lines, isVtt)

\* The list of lines parse_srt keeps.
SrtLines(srt_content) ==
    ParseLoop(Split(Strip(srt_content), "\n"), 1, <<>>, {}, FALSE)

\* The list of lines parse_vtt keeps.
VttLines(vtt_content) ==
    ParseLoop(Split(vtt_content, "\n"), 1, <<>>, {}, TRUE)

parse_srt(srt_content) == Join(SrtLines(srt_content), <<" ">>)

parse_vtt(vtt_content) == Join(VttLines(vtt_content), <<" ">>)

(***************************************************************************)
(* URL classification (urllib.parse.urlparse and parse_qs, on URLs without *)
(* percent escapes, control characters or brackets)                        *)
(***************************************************************************)

\* s.find(c) + 1: the first index of character c in s, 0 when absent.
IndexOf(s, c) ==
    IF \E i \in 1..Len(s) : s[i] = c
    THEN CHOOSE i \in 1..Len(s) : s[i] = c /\ \A k \in 1..(i - 1) : s[k] # c
    ELSE 0

Letters ==
    {"a","b","c","d","e","f","g","h","i","j","k","l","m","n","o","p","q","r",
     "s","t","u","v","w","x","y","z","A","B","C","D","E","F","G","H","I","J",
     "K","L","M","N","O","P","Q","R","S","T","U","V","W","X","Y","Z"}

SchemeChars == Letters \cup Digits \cup {"+", "-", "."}

\* urlsplit: a scheme is split off when the text before the first ":" is
\* made of scheme characters and starts with a letter.
HasScheme(url) ==
    LET i == IndexOf(url, ":")
    IN  /\ i > 1
        /\ url[1] \in Letters
        /\ \A k \in 1..(i - 1) : url[k] \in SchemeChars

UrlAfterScheme(url) ==
    IF HasScheme(url) THEN Tail_(url, IndexOf(url, ":") + 1) ELSE url

\* _splitnetloc(url, 2): the netloc ends at the first of "/", "?", "#".
NetlocEnd(rest) ==
    LET stops == {i \in 3..Len(rest) : rest[i] \in {"/", "?", "#"}}
    IN  IF stops = {} THEN Len(rest) + 1
        ELSE CHOOSE i \in stops : \A j \in stops : i <= j

HasNetloc(url) == StartsWith(UrlAfterScheme(url), <<"/", "/">>)

UrlNetloc(url) ==
    LET rest == UrlAfterScheme(url)
    IN  IF HasNetloc(url) THEN SubSeq(rest, 3, NetlocEnd(rest) - 1) ELSE <<>>

UrlAfterNetloc(url) ==
    LET rest == UrlAfterScheme(url)
    IN  IF HasNetloc(url) THEN Tail_(rest, NetlocEnd(rest)) ELSE rest

\* The fragment is cut at the first "#", then the query at the first "?".
UrlNoFragment(url) ==
    LET rest == UrlAfterNetloc(url)
        i == IndexOf(rest, "#")
    IN  IF i > 0 THEN SubSeq(rest, 1, i - 1) ELSE rest

UrlPath(url) ==
    LET rest == UrlNoFragment(url)
        i == IndexOf(rest, "?")
    IN  IF i > 0 THEN SubSeq(rest, 1, i - 1) ELSE rest

UrlQuery(url) ==
    LET rest == UrlNoFragment(url)
        i == IndexOf(rest, "?")
    IN  IF i > 0 THEN Tail_(rest, i + 1) ELSE <<>>

\* unquote(x.replace('+', ' ')) on text without percent escapes.
PlusToSpace(s) == [i \in 1..Len(s) |-> IF s[i] = "+" THEN " " ELSE s[i]]

\* parse_qs(query)[key]: the values of the fields named key, in order; a
\* field without "=" or with a blank value is dropped.
RECURSIVE QsCollect(_, _, _)
QsCollect(pairs, i, key) ==
    IF i > Len(pairs) THEN <<>>
    ELSE LET nv == pairs[i]
             eq == IndexOf(nv, "=")
             name == PlusToSpace(SubSeq(nv, 1, eq - 1))
             value == PlusToSpace(Tail_(nv, eq + 1))
         IN  IF eq > 0 /\ value # <<>> /\ name = key
             THEN <<value>> \o QsCollect(pairs, i + 1, key)
             ELSE QsCollect(pairs, i + 1, key)

QsValues(query, key) ==
    IF query = <<>> THEN <<>> ELSE QsCollect(Split(query, "&"), 1, key)

\* query_params.get(key, [None])[0]
QsFirst(query, key) ==
    IF QsValues(query, key) = <<>> THEN None ELSE QsValues(query, key)[1]

W_LIST == <<"l","i","s","t">>

\* path.split('/')[-1]
LastSegment(path) == LET parts == Split(path, "/") IN parts[Len(parts)]

\* path.lstrip('/')
RECURSIVE LStripSlash(_)
LStripSlash(s) ==
    IF s # <<>> /\ s[1] = "/" THEN LStripSlash(Tail(s)) ELSE s

extract_video_id(url) ==
    IF Contains(UrlNetloc(url), <<"y","o","u","t","u","b","e",".","c","o","m">>)
    THEN IF Contains(UrlPath(url), <<"w","a","t","c","h">>)
         THEN QsFirst(UrlQuery(url), <<"v">>)
         ELSE IF Contains(UrlPath(url), <<"e","m","b","e","d">>)
         THEN LastSegment(UrlPath(url))
         ELSE None
    ELSE IF Contains(UrlNetloc(url), <<"y","o","u","t","u",".","b","e">>)
    THEN LStripSlash(UrlPath(url))
    ELSE None

\* check_if_playlist_url: the triple (is_playlist, list_id, video_id).
check_if_playlist_url(url) ==
    IF QsValues(UrlQuery(url), W_LIST) # <<>>
    THEN <<TRUE, QsValues(UrlQuery(url), W_LIST)[1], QsFirst(UrlQuery(url), <<"v">>)>>
    ELSE <<FALSE, None, None>>

(***************************************************************************)
(* The working directory and the files of the external tool                *)
(***************************************************************************)

\* Names the primary command's template '%(title)s.%(ext)s' gives English
\* subtitles converted to srt: <title>.en.srt.
F_T  == <<"T",".","e","n",".","s","r","t">>
F_ID == <<"A","B","C","1","2","3",".","e","n",".","s","r","t">>
PrimaryNames == {F_T, F_ID}

\* Names the fallback command's template 'fallback.%(ext)s' gives.
FallbackNames ==
    {<<"f","a","l","l","b","a","c","k",".","e","n",".","v","t","t">>,
     <<"f","a","l","l","b","a","c","k",".","e","n",".","s","r","t">>}

\* Files of the user that may lie in the working directory before the call.
PreNames ==
    {<<"O",".","e","n",".","s","r","t">>,
     <<"f","a","l","l","b","a","c","k",".","t","x","t">>}

\* File contents the external tool may write, by index: blank text, cues
\* without text, and cues with text on which the two parsers differ.
Contents ==
    << <<" ","\n">>,
       <<"1","\n","0"," ","-","-",">"," ","1","\n">>,
       <<"W","E","B","V","T","T","\n","\n","0"," ","-","-",">"," ","1","\n",
         "<","c",">","H","i","<","/","c",">","\n","y","o","\n">> >>

ContentIds == 1..Len(Contents)

\* The most files one invocation of the external tool writes.
MaxCreate == 2

\* The most os.remove calls that raise during one acquisition.
MaxRmFail == 1

\* The most invalid answers given to the interactive prompt.
MaxPrompts == 2

\* fnmatch with "*" as the only wildcard.
RECURSIVE FnMatch(_, _)
FnMatch(name, pat) ==
    IF pat = <<>> THEN name = <<>>
    ELSE IF pat[1] = "*"
         THEN FnMatch(name, Tail(pat)) \/ (name # <<>> /\ FnMatch(Tail(name), pat))
         ELSE name # <<>> /\ name[1] = pat[1] /\ FnMatch(Tail(name), Tail(pat))

\* glob.glob in the current directory: hidden files only match a pattern
\* that starts with a dot.
GlobMatch(name, pat) ==
    FnMatch(name, pat) /\ ~(name # <<>> /\ name[1] = "." /\ pat[1] # ".")

P_EN_SRT == <<"*",".","e","n","*",".","s","r","t">>
P_FB_VTT == <<"f","a","l","l","b","a","c","k",".","*",".","v","t","t">>
P_FB_SRT == <<"f","a","l","l","b","a","c","k",".","*",".","s","r","t">>
P_FB_ANY == <<"f","a","l","l","b","a","c","k",".","*">>

MatchTable == [pat \in {P_EN_SRT, P_FB_VTT, P_FB_SRT, P_FB_ANY} |->
                  {n \in PrimaryNames \cup FallbackNames \cup PreNames :
                         GlobMatch(n, pat)}]

\* The set of names glob.glob(pat) finds in directory d, a function from
\* the names of the files present to the index of their content.
GlobSet(d, pat) == MatchTable[pat] \cap DOMAIN d

\* The orders in which glob.glob may list a set of names (the order of
\* os.scandir is not specified).
Perms(S) ==
    {q \in [1..Cardinality(S) -> S] : \A i, j \in 1..Cardinality(S) : q[i] = q[j] => i = j}

Range(q) == {q[i] : i \in 1..Len(q)}

\* What one invocation of the external tool can write: at most MaxCreate
\* of the names its output template allows, each with some content.
ToolWrites(names) ==
    UNION {[S -> ContentIds] : S \in {X \in SUBSET names : Cardinality(X) <= MaxCreate}}

PrimaryWrites == ToolWrites(PrimaryNames)

FallbackWrites == ToolWrites(FallbackNames)

\* What an invocation that does not exit zero can leave behind: files of
\* the same names, all holding the last of the contents (what they hold is
\* read only if their removal fails and a later attempt collects them).
ToolLeftovers(names) ==
    {[n \in S |-> Len(Contents)] : S \in {X \in SUBSET names : Cardinality(X) <= MaxCreate}}

PrimaryLeftovers == ToolLeftovers(PrimaryNames)

FallbackLeftovers == ToolLeftovers(FallbackNames)

\* The directory after the tool wrote w over it.
Written(d, w) ==
    [n \in DOMAIN d \cup DOMAIN w |-> IF n \in DOMAIN w THEN w[n] ELSE d[n]]

\* The directory after the names in gone were removed.
Removed(d, gone) == [n \in DOMAIN d \ gone |-> d[n]]

(***************************************************************************)
(* Rate-limit detection and backoff                                        *)
(***************************************************************************)

max_retries == 3

E_429   == <<"H","T","T","P"," ","E","r","r","o","r"," ","4","2","9">>
E_TMR   == <<"T","o","o"," ","M","a","n","y"," ","R","e","q","u","e","s","t","s">>
E_OTHER == <<"E","R","R","O","R",":"," ","P","r","i","v","a","t","e"," ","v","i","d","e","o">>

\* The error streams a failed invocation may carry (None: nothing captured).
Stderrs == {E_429, E_TMR, E_OTHER, None}


\* error_message = e.stderr.lower() if e.stderr else ""
ErrorMessage(stderr) == IF stderr = None \/ stderr = <<>> THEN <<>> ELSE Lower(stderr)

\* A rate-limit test that takes every error message for a rate limit.
IsRateLimitAnyMessage(stderr) == ErrorMessage(stderr) # <<>>

\* "429" in error_message or "too many requests" in error_message
IsRateLimit(stderr) ==
    \/ Contains(ErrorMessage(stderr), <<"4","2","9">>)
    \/ Contains(ErrorMessage(stderr),
                <<"t","o","o"," ","m","a","n","y"," ","r","e","q","u","e","s","t","s">>)

RECURSIVE Pow2(_)
Pow2(n) == IF n = 0 THEN 1 ELSE 2 * Pow2(n - 1)

\* Bits in the significand of the floating-point numbers of the model
\* (53 in a Python float).  Times are counted in units of 2^-(MantBits-1)
\* seconds, the spacing of the floats in [1, 2).
MantBits == 3

Unit == Pow2(MantBits - 1)

\* random.uniform(0, 2) = 0 + (2 - 0) * random(), random() a multiple of
\* 2^-MantBits in [0, 1): the jitters 0, 1, ..., 2^MantBits - 1 units.
Jitters == 0..(Pow2(MantBits) - 1)

\* The spacing, in units, of the floats around t (t >= one second).
Ulp(t) == CHOOSE p \in {Pow2(e) : e \in 0..6} : p * Unit <= t /\ t < 2 * p * Unit

\* t rounded to a float: to the nearest multiple of the spacing, a tie
\* going to the even multiple.
FloatRound(t) ==
    LET p == Ulp(t)
        q == t \div p
        r == t % p
    IN  IF 2 * r < p THEN q * p
        ELSE IF 2 * r > p THEN (q + 1) * p
        ELSE IF q % 2 = 0 THEN q * p ELSE (q + 1) * p

\* A backoff whose exponent is one too small.
BackoffDelayOneShort(k, m) == FloatRound(Pow2(k - 1) * Unit + m)

\* delay = (2 ** attempt) + random.uniform(0, 2), for the jitter m.
BackoffDelay(k, m) == FloatRound(Pow2(k) * Unit + m)

\* The fixed wait of the fallback, in seconds.
FallbackCooldown == 5

(***************************************************************************)
(* File selector                                                           *)
(***************************************************************************)

\* The URLs of the model: one with the id of a file name and a playlist,
\* one with another id.
U_PLAYLIST ==
    <<"h","t","t","p","s",":","/","/","w","w","w",".","y","o","u","t","u","b","e",
      ".","c","o","m","/","w","a","t","c","h","?","v","=","A","B","C","1","2","3",
      "&","l","i","s","t","=","P","L","1">>
U_OTHER ==
    <<"h","t","t","p","s",":","/","/","w","w","w",".","y","o","u","t","u","b","e",
      ".","c","o","m","/","w","a","t","c","h","?","v","=","Z","Z">>

\* The URLs given on the command line.
Urls == {U_PLAYLIST, U_OTHER}

\* extract_video_id on the URLs, computed once.
VideoIdOf == [u \in Urls |-> extract_video_id(u)]

\* The last file of least length.
ShortestFileLast(files) ==
    LET i == CHOOSE i \in 1..Len(files) :
                 /\ \A j \in 1..Len(files) : Len(files[i]) <= Len(files[j])
                 /\ \A j \in (i + 1)..Len(files) : Len(files[j]) > Len(files[i])
    IN  files[i]

\* min(srt_files, key=len): the first file of least length.
ShortestFile(files) ==
    LET i == CHOOSE i \in 1..Len(files) :
                 /\ \A j \in 1..Len(files) : Len(files[i]) <= Len(files[j])
                 /\ \A j \in 1..(i - 1) : Len(files[j]) > Len(files[i])
    IN  files[i]

\* A search for the video id that finds nothing.
IdMatchNever(files, video_id) == None

\* The first file whose name contains the video id, None when there is none
\* or no usable id.
IdMatch(files, video_id) ==
    IF video_id = None \/ video_id = <<>> THEN None
    ELSE IF \E i \in 1..Len(files) : Contains(files[i], video_id)
         THEN files[CHOOSE i \in 1..Len(files) :
                        /\ Contains(files[i], video_id)
                        /\ \A j \in 1..(i - 1) : ~Contains(files[j], video_id)]
         ELSE None

\* The answer that asks for a prompt (no text, like None).
AskUser == <<"AskUser">>

\* A selector that goes on to prompt in auto mode too.
SelectBeforePromptIgnoringAuto(files, url, auto) ==
    IF Len(files) = 1 THEN files[1]
    ELSE IF IdMatch(files, VideoIdOf[url]) # None
         THEN IdMatch(files, VideoIdOf[url])
    ELSE AskUser

\* select_best_subtitle_file up to the interactive loop: the file it
\* returns, or AskUser when it goes on to prompt.
SelectBeforePrompt(files, url, auto) ==
    IF Len(files) = 1 THEN files[1]
    ELSE IF IdMatch(files, VideoIdOf[url]) # None
         THEN IdMatch(files, VideoIdOf[url])
    ELSE IF auto THEN ShortestFile(files)
    ELSE AskUser

\* int(choice) succeeds: an optional sign and decimal digits (otherwise
\* int raises ValueError).
IsInt(s) ==
    \/ IsDigitStr(s)
    \/ Len(s) > 1 /\ s[1] \in {"-", "+"} /\ IsDigitStr(Tail(s))

RECURSIVE DigitsValue(_)
DigitsValue(s) ==
    IF s = <<>> THEN 0
    ELSE 10 * DigitsValue(SubSeq(s, 1, Len(s) - 1))
         + (CHOOSE d \in 0..9 : ToString(d) = s[Len(s)])

\* int(choice), where IsInt(choice).
ParseInt(s) ==
    IF IsDigitStr(s) THEN DigitsValue(s)
    ELSE IF s[1] = "-" THEN 0 - DigitsValue(Tail(s))
    ELSE DigitsValue(Tail(s))

\* The lines a user may type at the prompt.
Answers ==
    {<<>>, <<" ">>, <<"1">>, <<"2">>, <<" ","3">>, <<"0">>, <<"9">>, <<"-","1">>, <<"x">>}

\* A prompt loop that takes a number out of range for the nearest file.
PromptChoiceClamping(files, typed) ==
    LET choice == Strip(typed)
    IN  IF choice = <<>> THEN ShortestFile(files)
        ELSE IF ~IsInt(choice) THEN AskUser
        ELSE IF ParseInt(choice) < 1 THEN files[1]
        ELSE IF ParseInt(choice) > Len(files) THEN files[Len(files)]
        ELSE files[ParseInt(choice)]

\* One pass of the prompt loop on the typed line: the file returned, or
\* AskUser when the loop prompts again.
PromptChoice(files, typed) ==
    LET choice == Strip(typed)
    IN  IF choice = <<>> THEN ShortestFile(files)
        ELSE IF ~IsInt(choice) THEN AskUser
        ELSE IF 1 <= ParseInt(choice) /\ ParseInt(choice) <= Len(files)
             THEN files[ParseInt(choice)]
        ELSE AskUser

(***************************************************************************)
(* The command lines of the external tool                                  *)
(***************************************************************************)

\* shutil.which('yt-dlp'), as main passes it on.
yt_dlp_path == "yt-dlp"

NO_PLAYLIST == "--no-playlist"

\* Lines 152-165: the options of the primary command.
PrimaryOptions ==
    <<"--skip-download", "--write-auto-subs", "--sub-langs", "en",
      "--convert-subs", "srt", "--output", "%(title)s.%(ext)s",
      "--sleep-interval", "1", "--max-sleep-interval", "3",
      "--retries", "5", "--socket-timeout", "60",
      "--fragment-retries", "10", "--retry-sleep", "5">>

\* Lines 315-324: the options of the fallback command.
FallbackOptions ==
    <<"--skip-download", "--write-auto-subs", "--sub-langs", "en",
      "--output", "fallback.%(ext)s", "--socket-timeout", "60",
      "--retries", "3", "--retry-sleep", "5">>

\* A guard that is never added.
PlaylistGuardNever(url) == <<>>

\* Lines 168-170 and 327-330: the option appended for a playlist URL.
PlaylistGuard(url) ==
    IF check_if_playlist_url(url)[1] THEN <<NO_PLAYLIST>> ELSE <<>>

\* Lines 152-172: the primary command; the URL is its last word.
PrimaryCommand(url) ==
    <<yt_dlp_path>> \o PrimaryOptions \o PlaylistGuard(url) \o <<url>>

\* Lines 315-332: the fallback command.
FallbackCommand(url) ==
    <<yt_dlp_path>> \o FallbackOptions \o PlaylistGuard(url) \o <<url>>

\* The words of a command before the URL.
CommandOptions(cmd) == SubSeq(cmd, 2, Len(cmd) - 1)

(***************************************************************************)
(* The caption parsers called on their own                                 *)
(***************************************************************************)

\* Lines of caption text: spoken lines, the lines the formats add, and lines
\* with inline tags, well formed or not.
CaptionLine ==
    [hello |-> <<"H","e","l","l","o"," ","w","o","r","l","d">>,
     index |-> <<"1">>,
     timing |-> <<"0"," ","-","-",">"," ","1">>,
     empty |-> <<>>,
     tagged |-> <<"<","c",">","H","i","<","/","c",">">>,
     hi |-> <<"H","i">>,
     lower |-> <<"h","i">>,
     padded |-> <<"\t","H","i"," ">>,
     tagdigits |-> <<"1","<","i",">","2","<","/","i",">">>,
     tagarrow |-> <<"-","<","b",">","-",">">>,
     header |-> <<"W","E","B","V","T","T">>,
     note |-> <<"N","O","T","E"," ","x">>,
     open |-> <<"a"," ","<","b">>,
     close |-> <<"c",">"," ","d">>]

LineChoices == {CaptionLine[k] : k \in DOMAIN CaptionLine}

\* The largest number of lines of a caption text.
MaxLines == 2

\* Two cues that carry the same spoken line.
TwoCues ==
    <<
      "1", "\n", "0", "0", ":", "0", "0", ":", "0", "1", ",", "0", "0", "0",
      " ", "-", "-", ">", " ", "0", "0", ":", "0", "0", ":", "0", "2", ",",
      "0", "0", "0", "\n", "H", "e", "l", "l", "o", " ", "w", "o", "r", "l",
      "d", "\n", "\n", "2", "\n", "0", "0", ":", "0", "0", ":", "0", "2", ",",
      "0", "0", "0", " ", "-", "-", ">", " ", "0", "0", ":", "0", "0", ":",
      "0", "3", ",", "0", "0", "0", "\n", "H", "e", "l", "l", "o", " ", "w",
      "o", "r", "l", "d", "\n"
    >>

\* A line that begins with a tag, another line, and the text of the first
\* line again, without the tag.
RepeatedAfterTag ==
    Join(<<CaptionLine.tagged, CaptionLine.hello, CaptionLine.hi>>, <<"\n">>)

\* The caption texts: up to MaxLines lines, separated by newlines, the two
\* cues, and the line repeated after its tagged form.
ParserInputs ==
    {Join(q, <<"\n">>) : q \in UNION {[1..n -> LineChoices] : n \in 0..MaxLines}}
       \cup {TwoCues, RepeatedAfterTag}

\* The text of the parser calls made besides the ones on the text under
\* test.
Warmups == {Join(<<CaptionLine.tagged, CaptionLine.hello>>, <<"\n">>)}

(***************************************************************************)
(* The acquisition: get_transcript_with_yt_dlp and try_fallback_mode       *)
(***************************************************************************)

\* The working directory before the call: empty, or holding the user's
\* files, each with a caption text in it.
InitialDirs == {[n \in {} |-> 1], [n \in PreNames |-> Len(Contents)]}

VARIABLES
    pc,               \* the statement the program is at
    video_url,        \* the URL argument
    AUTO_SELECT_MODE, \* the global set from --auto
    command,          \* the primary command, built before the retry loop
    fb_command,       \* the command try_fallback_mode builds
    fs,               \* the working directory: name -> index of its content
    attempt,          \* the loop variable of the retry loop
    delay,            \* the backoff wait being slept
    srt_files,        \* glob.glob('*.en*.srt') after a zero exit
    selected_file,    \* the selector's result
    srt_content,      \* the text read from selected_file
    transcript,       \* parse_srt's result
    outcomes,         \* how each primary invocation so far ended
    retval,           \* the value get_transcript_with_yt_dlp returns
    ret_line,         \* the source line of the return statement taken
    subtitle_files,   \* try_fallback_mode: the two globs, concatenated
    subtitle_file,    \* try_fallback_mode: subtitle_files[0]
    content,          \* try_fallback_mode: the text read from subtitle_file
    fb_outcome,       \* how the fallback invocation ended
    fb_retval,        \* the value try_fallback_mode returns
    fb_ret_line,      \* the source line of its return statement
    runs,             \* primary invocations of the external tool so far
    fb_calls,         \* calls of try_fallback_mode so far
    fb_runs,          \* fallback invocations of the external tool so far
    waits,            \* backoff sleeps so far
    cooldowns,        \* seconds slept by the fallback before its invocation
    prompts,          \* invalid answers given to the prompt so far
    choice,           \* the selector's local: the answer typed, stripped
    created,          \* names the external tool wrote during the call
    written,          \* names the zero-exit invocation wrote, while the
                      \* selector is called with the files collected
    rm_failed,        \* names whose latest os.remove raised
    rm_fails,         \* os.remove calls that raised so far
    probe,            \* parsers on their own: the caption text under test
    parser,           \* the parser of the latest call, "srt" or "vtt"
    parser_arg,       \* the text of the latest parser call
    lines,            \* the list the latest parser call built
    seen_lines,       \* the set the latest parser call built
    parser_result,    \* the string the latest parser call returned
    first_call,       \* the first parser call: parser, text and result
    earlier,          \* the texts of the parser calls before the latest
    exit_code,        \* main: the exit status of the process, once it ended
    printed,          \* main: the transcript printed
    clipboard,        \* main: the text pyperclip.copy put on the clipboard
    copies,           \* main: calls of pyperclip.copy so far
    warned            \* main: the clipboard warning was printed

vars ==
    <<pc, video_url, AUTO_SELECT_MODE, command, fb_command, fs, attempt, delay, srt_files,
      selected_file, srt_content, transcript, outcomes, retval,
      ret_line, subtitle_files, subtitle_file, content, fb_outcome, fb_retval,
      fb_ret_line, runs, fb_calls, fb_runs, waits, cooldowns, prompts, choice, created, written,
      rm_failed, rm_fails, probe, parser, parser_arg, lines, seen_lines,
      parser_result, first_call, earlier, exit_code, printed, clipboard,
      copies, warned>>

\* Variable groups, for UNCHANGED.
argVars   == <<video_url, AUTO_SELECT_MODE, command>>
selVars   == <<srt_files, selected_file, srt_content, transcript, prompts,
               choice>>
fbVars    == <<subtitle_files, subtitle_file, content, fb_outcome, fb_retval,
               fb_ret_line, fb_calls, fb_command, fb_runs, cooldowns>>
rmVars    == <<rm_failed, rm_fails>>
parserVars == <<probe, parser, parser_arg, lines, seen_lines, parser_result,
               first_call, earlier>>
mainVars  == <<exit_code, printed, clipboard, copies, warned>>

\* main has not ended and has not printed or copied anything.
MainRunning ==
    /\ exit_code = None
    /\ printed = None
    /\ clipboard = None
    /\ copies = 0
    /\ warned = FALSE

\* No parser was called on its own.
NoParserCall ==
    /\ parser = "none"
    /\ parser_arg = None
    /\ lines = <<>>
    /\ seen_lines = {}
    /\ parser_result = None
    /\ first_call = None
    /\ earlier = {}

Init ==
    /\ pc = "loop"
    /\ video_url \in Urls
    /\ AUTO_SELECT_MODE \in BOOLEAN
    /\ command = PrimaryCommand(video_url)
    /\ fb_command = <<>>
    /\ fs \in InitialDirs
    /\ attempt = 0
    /\ delay = 0
    /\ srt_files = <<>>
    /\ selected_file = None
    /\ srt_content = None
    /\ transcript = None
    /\ outcomes = <<>>
    /\ retval = None
    /\ ret_line = 0
    /\ subtitle_files = <<>>
    /\ subtitle_file = None
    /\ content = None
    /\ fb_outcome = "none"
    /\ fb_retval = None
    /\ fb_ret_line = 0
    /\ runs = 0
    /\ fb_calls = 0
    /\ fb_runs = 0
    /\ waits = 0
    /\ cooldowns = 0
    /\ prompts = 0
    /\ choice = None
    /\ created = {}
    /\ written = {}
    /\ rm_failed = {}
    /\ rm_fails = 0
    /\ NoParserCall
    /\ probe = <<>>
    /\ MainRunning

\* The directory and the record of failed removals, as one value that the
\* steps of a handler pass along.
Cur == [d |-> fs, failed |-> rm_failed, fails |-> rm_fails]

Store(st) ==
    /\ fs' = st.d
    /\ rm_failed' = st.failed
    /\ rm_fails' = st.fails

\* The external tool wrote w over the directory.
Wrote(w) == [d |-> Written(fs, w), failed |-> rm_failed, fails |-> rm_fails]

\* os.remove may raise for the names in fail, of those in targets.
CanFail(st, targets, fail) ==
    /\ fail \subseteq targets
    /\ st.fails + Cardinality(fail) <= MaxRmFail

\* The names in targets were passed to os.remove, which raised for those in
\* fail and removed the others.
AfterRemove(st, targets, fail) ==
    [d |-> Removed(st.d, targets \ fail),
     failed |-> (st.failed \ targets) \cup fail,
     fails |-> st.fails + Cardinality(fail)]

\* The pattern the finally clause of the retry loop globs for.
FinallyPattern == P_EN_SRT

\* Lines 292-300: the finally clause of one loop iteration, entered with
\* the directory as in st; removal errors are swallowed.
Finally(st) ==
    \E fail \in SUBSET GlobSet(st.d, FinallyPattern) :
        /\ CanFail(st, GlobSet(st.d, FinallyPattern), fail)
        /\ Store(AfterRemove(st, GlobSet(st.d, FinallyPattern), fail))

\* return v at the given source line, inside the try of the retry loop:
\* the finally clause runs, then the function returns.
Return(st, v, line) ==
    /\ Finally(st)
    /\ retval' = v
    /\ ret_line' = line
    /\ pc' = "done"
    /\ UNCHANGED attempt

\* A continue that skips an attempt.
ContinueSkipping(st) ==
    /\ Finally(st)
    /\ attempt' = attempt + 2
    /\ pc' = "loop"
    /\ UNCHANGED <<retval, ret_line>>

\* continue inside the try of the retry loop: the finally clause runs, then
\* the next iteration starts.
Continue(st) ==
    /\ Finally(st)
    /\ attempt' = attempt + 1
    /\ pc' = "loop"
    /\ UNCHANGED <<retval, ret_line>>

\* One subprocess.run of the primary command that wrote w.
PrimaryRan(w, how) ==
    /\ pc = "run"
    /\ created' = created \cup DOMAIN w
    /\ runs' = runs + 1
    /\ outcomes' = Append(outcomes, how)
    /\ UNCHANGED delay

\* Line 302: the loop ran out of attempts (the last one timed out).
LoopExit ==
    /\ pc = "loop"
    /\ attempt = max_retries
    /\ retval' = None
    /\ ret_line' = 302
    /\ pc' = "done"
    /\ UNCHANGED <<argVars, parserVars, mainVars, written, fs, attempt, delay,
                   selVars, outcomes, fbVars, runs, waits, created, rmVars>>

\* Lines 175-178, attempt 0: no wait.
FirstAttempt ==
    /\ pc = "loop"
    /\ attempt < max_retries
    /\ attempt = 0
    /\ pc' = "run"
    /\ UNCHANGED <<argVars, parserVars, mainVars, written, fs, attempt, delay,
                   selVars, outcomes, retval, ret_line, fbVars, runs, waits,
                   created, rmVars>>

\* Lines 178-183, attempt > 0: exponential backoff with jitter; the sleep
\* starts.
Backoff ==
    /\ pc = "loop"
    /\ attempt < max_retries
    /\ attempt > 0
    /\ \E m \in Jitters : delay' = BackoffDelay(attempt, m)
    /\ waits' = waits + 1
    /\ pc' = "sleep"
    /\ UNCHANGED <<argVars, parserVars, mainVars, written, fs, attempt,
                   selVars, outcomes, retval, ret_line, fbVars, runs, created,
                   rmVars>>

\* Line 183: time.sleep returns.
BackoffDone ==
    /\ pc = "sleep"
    /\ delay' = 0
    /\ pc' = "run"
    /\ UNCHANGED <<argVars, parserVars, mainVars, written, fs, attempt,
                   selVars, outcomes, retval, ret_line, fbVars, runs, waits,
                   created, rmVars>>

\* Lines 191-205: the invocation hits the 120 s timeout.
RunTimeout ==
    /\ \E w \in PrimaryLeftovers : PrimaryRan(w, "timeout") /\ Continue(Wrote(w))
    /\ UNCHANGED <<argVars, parserVars, mainVars, written, selVars, fbVars,
                   waits>>

\* What the external tool reported on a non-zero exit, as a kind of
\* outcome: the two messages of a rate limit, or anything else.
RateLimitMessages == {E_429, E_TMR}

ErrorKind(e) == IF e \in RateLimitMessages THEN "rate_limit" ELSE "error"

\* The test of the remaining attempts, one attempt short.
AttemptsRemainOneShort(a) == a < max_retries - 2

\* Lines 271 and 283: attempts remain after attempt a.
AttemptsRemain(a) == a < max_retries - 1

\* Lines 262-287: the invocation exits non-zero.
RunCalledProcessError ==
    /\ \E w \in PrimaryLeftovers, e \in Stderrs :
          /\ PrimaryRan(w, ErrorKind(e))
          /\ IF IsRateLimit(e)
             THEN IF AttemptsRemain(attempt)
                  THEN Continue(Wrote(w)) /\ UNCHANGED <<fb_calls, fb_command>>
                  ELSE /\ fb_calls' = fb_calls + 1
                       /\ fb_command' = FallbackCommand(video_url)
                       /\ pc' = "fallback"
                       /\ Store(Wrote(w))
                       /\ UNCHANGED <<attempt, retval, ret_line>>
             ELSE /\ UNCHANGED <<fb_calls, fb_command>>
                  /\ IF AttemptsRemain(attempt)
                     THEN Continue(Wrote(w))
                     ELSE Return(Wrote(w), None, 287)
    /\ UNCHANGED <<argVars, parserVars, mainVars, written, selVars,
                   subtitle_files, subtitle_file, content, fb_outcome,
                   fb_retval, fb_ret_line, fb_runs, cooldowns, waits>>

\* Lines 289-291: subprocess.run raises something else.
RunException ==
    /\ \E w \in PrimaryLeftovers :
          PrimaryRan(w, "exception") /\ Return(Wrote(w), None, 291)
    /\ UNCHANGED <<argVars, parserVars, mainVars, written, selVars, fbVars,
                   waits>>

\* Line 209: the pattern of the files collected after a zero exit.
CollectPattern == P_EN_SRT

\* A zero exit without files that is retried instead of returned.
RunOkRetrying ==
    /\ \E w \in PrimaryWrites :
          /\ PrimaryRan(w, "ok")
          /\ \E found \in Perms(GlobSet(Written(fs, w), CollectPattern)) :
                /\ srt_files' = found
                /\ written' = IF found = <<>> THEN {} ELSE DOMAIN w
                /\ IF found = <<>>
                   THEN Continue(Wrote(w))
                   ELSE /\ Store(Wrote(w))
                        /\ pc' = "select"
                        /\ UNCHANGED <<attempt, retval, ret_line>>
    /\ UNCHANGED <<argVars, parserVars, mainVars, selected_file, srt_content,
                   transcript, prompts, choice, fbVars, waits>>

\* Lines 191-213: the invocation exits zero and the files are collected.
RunOk ==
    /\ \E w \in PrimaryWrites :
          /\ PrimaryRan(w, "ok")
          /\ \E found \in Perms(GlobSet(Written(fs, w), CollectPattern)) :
                /\ srt_files' = found
                /\ written' = IF found = <<>> THEN {} ELSE DOMAIN w
                /\ IF found = <<>>
                   THEN Return(Wrote(w), None, 213)
                   ELSE /\ Store(Wrote(w))
                        /\ pc' = "select"
                        /\ UNCHANGED <<attempt, retval, ret_line>>
    /\ UNCHANGED <<argVars, parserVars, mainVars, selected_file, srt_content,
                   transcript, prompts, choice, fbVars, waits>>

\* Lines 217 and 63-82: the selector decides without asking.
Select ==
    /\ pc = "select"
    /\ written' = {}
    /\ SelectBeforePrompt(srt_files, video_url, AUTO_SELECT_MODE) # AskUser
    /\ selected_file' = SelectBeforePrompt(srt_files, video_url, AUTO_SELECT_MODE)
    /\ pc' = "read"
    /\ UNCHANGED <<argVars, parserVars, mainVars, fs, attempt, delay,
                   srt_files, srt_content, transcript, prompts, choice,
                   outcomes, retval, ret_line, fbVars, runs, waits, created,
                   rmVars>>

\* Lines 84-89: the selector goes on to the interactive loop.
SelectAsks ==
    /\ pc = "select"
    /\ written' = {}
    /\ SelectBeforePrompt(srt_files, video_url, AUTO_SELECT_MODE) = AskUser
    /\ pc' = "prompt"
    /\ UNCHANGED <<argVars, parserVars, mainVars, fs, attempt, delay, selVars,
                   outcomes, retval, ret_line, fbVars, runs, waits, created,
                   rmVars>>

\* Lines 91-102: an answer that ends the loop.
PromptAccept ==
    /\ pc = "prompt"
    /\ \E typed \in Answers :
          /\ PromptChoice(srt_files, typed) # AskUser
          /\ choice' = Strip(typed)
          /\ selected_file' = PromptChoice(srt_files, typed)
    /\ pc' = "read"
    /\ UNCHANGED <<argVars, parserVars, mainVars, written, fs, attempt, delay,
                   srt_files, srt_content, transcript, prompts, outcomes,
                   retval, ret_line, fbVars, runs, waits, created, rmVars>>

\* Lines 103-106: an answer out of range or not a number; the loop prompts
\* again.
PromptAgain ==
    /\ pc = "prompt"
    /\ prompts < MaxPrompts
    /\ \E typed \in Answers :
          /\ PromptChoice(srt_files, typed) = AskUser
          /\ choice' = Strip(typed)
    /\ prompts' = prompts + 1
    /\ UNCHANGED <<pc, argVars, parserVars, mainVars, written, fs, attempt,
                   delay, srt_files, selected_file, srt_content, transcript,
                   outcomes, retval, ret_line, fbVars, runs, waits, created,
                   rmVars>>

\* Lines 107-109 and 218-220: an interrupt at the prompt.
PromptInterrupt ==
    /\ pc = "prompt"
    /\ selected_file' = None
    /\ choice' = None
    /\ Return(Cur, None, 220)
    /\ UNCHANGED <<argVars, parserVars, mainVars, written, delay, srt_files,
                   srt_content, transcript, prompts, outcomes, fbVars, runs,
                   waits, created>>

\* input() raises something else (end of input): lines 289-291.
PromptException ==
    /\ pc = "prompt"
    /\ Return(Cur, None, 291)
    /\ choice' = None
    /\ UNCHANGED <<argVars, parserVars, mainVars, written, delay, srt_files,
                   selected_file, srt_content, transcript, prompts, outcomes,
                   fbVars, runs, waits, created>>

\* A primary path that returns the transcript without testing it.
PrimaryResultUntested(t) == <<t, 256>>

\* Lines 253-260: what is returned after the cleanup, by the transcript:
\* the value and the source line of the return statement.
PrimaryResult(t) == IF t # <<>> THEN <<t, 256>> ELSE <<None, 260>>

\* Lines 227-260: the selected file is read and parsed, every collected
\* file is removed (errors swallowed), and the result is returned.
ReadOk ==
    /\ pc = "read"
    /\ srt_content' = Contents[fs[selected_file]]
    /\ choice' = None
    /\ IF Strip(srt_content') = <<>>
       THEN Return(Cur, None, 233) /\ UNCHANGED transcript
       ELSE /\ transcript' = parse_srt(srt_content')
            /\ \E fail \in SUBSET Range(srt_files) :
                  /\ CanFail(Cur, Range(srt_files), fail)
                  /\ Return(AfterRemove(Cur, Range(srt_files), fail),
                            PrimaryResult(transcript')[1],
                            PrimaryResult(transcript')[2])
    /\ UNCHANGED <<argVars, parserVars, mainVars, written, delay, srt_files,
                   selected_file, prompts, outcomes, fbVars, runs, waits,
                   created>>

\* open or read raises: lines 289-291.
ReadFails ==
    /\ pc = "read"
    /\ Return(Cur, None, 291)
    /\ choice' = None
    /\ UNCHANGED <<argVars, parserVars, mainVars, written, delay, srt_files,
                   selected_file, srt_content, transcript, prompts, outcomes,
                   fbVars, runs, waits, created>>

\* A finally clause of try_fallback_mode that looks for the sequence-based
\* files only.
FbFinallyPatternSrtOnly == P_FB_SRT

\* The pattern the finally clause of try_fallback_mode globs for.
FbFinallyPattern == P_FB_ANY

\* return v at the given source line, inside the try of try_fallback_mode:
\* its finally clause runs (lines 413-419), and the caller returns the value
\* at line 276, through its own finally clause.
FbReturn(st, v, line) ==
    /\ fb_retval' = v
    /\ fb_ret_line' = line
    /\ \E fail \in SUBSET GlobSet(st.d, FbFinallyPattern) :
          /\ CanFail(st, GlobSet(st.d, FbFinallyPattern), fail)
          /\ Return(AfterRemove(st, GlobSet(st.d, FbFinallyPattern), fail), v, 276)

\* Lines 338-345: the cooldown, then one subprocess.run of the fallback
\* command that wrote w.
FallbackRan(w, how) ==
    /\ pc = "fallback"
    /\ cooldowns' = cooldowns + FallbackCooldown
    /\ created' = created \cup DOMAIN w
    /\ fb_runs' = fb_runs + 1
    /\ fb_outcome' = how

\* Lines 347-353: the fallback invocation hits the 120 s timeout.
FbRunTimeout ==
    /\ \E w \in FallbackLeftovers :
          FallbackRan(w, "timeout") /\ FbReturn(Wrote(w), None, 353)
    /\ UNCHANGED <<argVars, parserVars, mainVars, written, delay, selVars,
                   outcomes, subtitle_files, subtitle_file, content, fb_calls,
                   fb_command, runs, waits>>

\* Lines 403-409: the fallback invocation exits non-zero.
FbRunCalledProcessError ==
    /\ \E w \in FallbackLeftovers :
          FallbackRan(w, "error") /\ FbReturn(Wrote(w), None, 409)
    /\ UNCHANGED <<argVars, parserVars, mainVars, written, delay, selVars,
                   outcomes, subtitle_files, subtitle_file, content, fb_calls,
                   fb_command, runs, waits>>

\* Lines 410-412: subprocess.run raises something else.
FbRunException ==
    /\ \E w \in FallbackLeftovers :
          FallbackRan(w, "exception") /\ FbReturn(Wrote(w), None, 412)
    /\ UNCHANGED <<argVars, parserVars, mainVars, written, delay, selVars,
                   outcomes, subtitle_files, subtitle_file, content, fb_calls,
                   fb_command, runs, waits>>

\* Line 356: glob.glob('fallback.*.vtt') + glob.glob('fallback.*.srt'), for
\* the listing orders v and s of the two globs.
FallbackFiles(v, s) == v \o s

\* Lines 344-365: the fallback invocation exits zero and the files are
\* collected.
FbRunOk ==
    /\ \E w \in FallbackWrites :
          /\ FallbackRan(w, "ok")
          /\ \E v \in Perms(GlobSet(Written(fs, w), P_FB_VTT)),
                s \in Perms(GlobSet(Written(fs, w), P_FB_SRT)) :
                /\ subtitle_files' = FallbackFiles(v, s)
                /\ IF subtitle_files' = <<>>
                   THEN FbReturn(Wrote(w), None, 361) /\ UNCHANGED subtitle_file
                   ELSE /\ subtitle_file' = subtitle_files'[1]
                        /\ pc' = "fb_read"
                        /\ Store(Wrote(w))
                        /\ UNCHANGED <<attempt, retval, ret_line, fb_retval,
                                       fb_ret_line>>
    /\ UNCHANGED <<argVars, parserVars, mainVars, written, delay, selVars,
                   outcomes, content, fb_calls, fb_command, runs, waits>>

\* open or read of the fallback file raises: lines 410-412.
FbReadFails ==
    /\ pc = "fb_read"
    /\ FbReturn(Cur, None, 412)
    /\ UNCHANGED <<argVars, parserVars, mainVars, written, delay, selVars,
                   outcomes, subtitle_files, subtitle_file, content,
                   fb_outcome, fb_calls, fb_command, fb_runs, cooldowns, runs,
                   waits, created>>

\* Lines 369-374 and 410-412: the file is read, and os.remove of it raises,
\* which the except clause turns into the failure value.
FbRemoveFails ==
    /\ pc = "fb_read"
    /\ content' = Contents[fs[subtitle_file]]
    /\ CanFail(Cur, {subtitle_file}, {subtitle_file})
    /\ FbReturn(AfterRemove(Cur, {subtitle_file}, {subtitle_file}), None, 412)
    /\ UNCHANGED <<argVars, parserVars, mainVars, written, delay, selVars,
                   outcomes, subtitle_files, subtitle_file, fb_outcome,
                   fb_calls, fb_command, fb_runs, cooldowns, runs, waits,
                   created>>

\* Lines 385-390: the parser picked by the extension of the file name.
FallbackParse(name, text) ==
    IF EndsWith(name, <<".","s","r","t">>) THEN parse_srt(text) ELSE parse_vtt(text)

\* A fallback that returns the parser's result without testing it.
FallbackResultUntested(name, text) ==
    IF Strip(text) = <<>> THEN <<None, 381>>
    ELSE <<FallbackParse(name, text), 397>>

\* Lines 378-401: what try_fallback_mode returns for the text read from the
\* file of the given name: the value and the source line of the return.
FallbackResult(name, text) ==
    IF Strip(text) = <<>> THEN <<None, 381>>
    ELSE IF FallbackParse(name, text) # <<>>
         THEN <<FallbackParse(name, text), 397>>
         ELSE <<None, 401>>

\* Lines 369-401: the file is read, removed and parsed.
FbReadOk ==
    /\ pc = "fb_read"
    /\ content' = Contents[fs[subtitle_file]]
    /\ FbReturn(AfterRemove(Cur, {subtitle_file}, {}),
                FallbackResult(subtitle_file, content')[1],
                FallbackResult(subtitle_file, content')[2])
    /\ UNCHANGED <<argVars, parserVars, mainVars, written, delay, selVars,
                   outcomes, subtitle_files, subtitle_file, fb_outcome,
                   fb_calls, fb_command, fb_runs, cooldowns, runs, waits,
                   created>>

Next ==
    \/ LoopExit
    \/ FirstAttempt
    \/ Backoff
    \/ BackoffDone
    \/ RunException
    \/ RunTimeout
    \/ RunCalledProcessError
    \/ RunOk
    \/ Select
    \/ SelectAsks
    \/ PromptException
    \/ PromptInterrupt
    \/ PromptAgain
    \/ PromptAccept
    \/ ReadFails
    \/ ReadOk
    \/ FbRunException
    \/ FbRunTimeout
    \/ FbRunCalledProcessError
    \/ FbRunOk
    \/ FbReadFails
    \/ FbRemoveFails
    \/ FbReadOk

Spec == Init /\ [][Next]_vars

\* The program always takes its next step: sleeps end, the subprocess is
\* bounded by its timeout, and the file operations return.
FairSpec == Spec /\ WF_vars(Next)

(***************************************************************************)
(* main: the acquisition, then the transcript printed and copied           *)
(***************************************************************************)

\* The process starts: the URL is on the command line, the globals have the
\* values of lines 510-511, and nothing of the acquisition has happened.
MainInit ==
    /\ pc = "main"
    /\ video_url \in Urls
    /\ AUTO_SELECT_MODE = FALSE
    /\ command = <<>>
    /\ fb_command = <<>>
    /\ fs \in InitialDirs
    /\ attempt = 0
    /\ delay = 0
    /\ srt_files = <<>>
    /\ selected_file = None
    /\ srt_content = None
    /\ transcript = None
    /\ outcomes = <<>>
    /\ retval = None
    /\ ret_line = 0
    /\ subtitle_files = <<>>
    /\ subtitle_file = None
    /\ content = None
    /\ fb_outcome = "none"
    /\ fb_retval = None
    /\ fb_ret_line = 0
    /\ runs = 0
    /\ fb_calls = 0
    /\ fb_runs = 0
    /\ waits = 0
    /\ cooldowns = 0
    /\ prompts = 0
    /\ choice = None
    /\ created = {}
    /\ written = {}
    /\ rm_failed = {}
    /\ rm_fails = 0
    /\ NoParserCall
    /\ probe = <<>>
    /\ MainRunning

\* What main leaves alone before and after the acquisition.
acquisitionVars ==
    <<fb_command, fs, attempt, delay, written, selVars, outcomes, retval, ret_line,
      subtitle_files, subtitle_file, content, fb_outcome, fb_retval,
      fb_ret_line, fb_calls, fb_runs, cooldowns, runs, waits, created, rmVars>>

\* sys.exit(code)
Exit(code) ==
    /\ exit_code' = code
    /\ pc' = "exit"

\* Lines 17-21: yt-dlp is not on the PATH.
MainNoTool ==
    /\ pc = "main"
    /\ Exit(1)
    /\ UNCHANGED <<argVars, parserVars, acquisitionVars, printed, clipboard,
                   copies, warned>>

\* Lines 475-483: --test-connection was given and the connection test
\* failed.
MainTestFails ==
    /\ pc = "main"
    /\ Exit(1)
    /\ UNCHANGED <<argVars, parserVars, acquisitionVars, printed, clipboard,
                   copies, warned>>

\* Lines 460-488: the globals are set from the arguments and
\* get_transcript_with_yt_dlp is called, which builds its command.
MainStart ==
    /\ pc = "main"
    /\ AUTO_SELECT_MODE' \in BOOLEAN
    /\ command' = PrimaryCommand(video_url)
    /\ pc' = "loop"
    /\ UNCHANGED <<video_url, parserVars, acquisitionVars, mainVars>>

\* if transcript: (line 490)
Truthy(t) == t # None /\ t # <<>>

\* Lines 490-499: the transcript is printed and copied; main returns and
\* the process ends with status 0.
MainDeliver ==
    /\ pc = "done"
    /\ Truthy(retval)
    /\ printed' = retval
    /\ clipboard' = retval
    /\ copies' = copies + 1
    /\ Exit(0)
    /\ UNCHANGED <<argVars, parserVars, acquisitionVars, warned>>

\* Lines 490-502: the transcript is printed, pyperclip.copy raises
\* PyperclipException and the warning is printed; main returns and the
\* process ends with status 0.
MainClipboardFails ==
    /\ pc = "done"
    /\ Truthy(retval)
    /\ printed' = retval
    /\ copies' = copies + 1
    /\ warned' = TRUE
    /\ Exit(0)
    /\ UNCHANGED <<argVars, parserVars, acquisitionVars, clipboard>>

\* A failure that ends the process with status 0.
MainFailExitsZero ==
    /\ pc = "done"
    /\ ~Truthy(retval)
    /\ Exit(0)
    /\ UNCHANGED <<argVars, parserVars, acquisitionVars, printed, clipboard,
                   copies, warned>>

\* Lines 503-506: no transcript; the message is printed and the process
\* ends with status 1.
MainFail ==
    /\ pc = "done"
    /\ ~Truthy(retval)
    /\ Exit(1)
    /\ UNCHANGED <<argVars, parserVars, acquisitionVars, printed, clipboard,
                   copies, warned>>

MainNext ==
    \/ MainNoTool
    \/ MainTestFails
    \/ MainStart
    \/ Next
    \/ MainDeliver
    \/ MainClipboardFails
    \/ MainFail

MainSpec == MainInit /\ [][MainNext]_vars

(***************************************************************************)
(* parse_srt and parse_vtt as functions of a text, called one after the    *)
(* other on any texts                                                      *)
(***************************************************************************)

\* One of the parsers is about to be called; the acquisition is not
\* running.
ParserInit ==
    /\ pc = "parser"
    /\ probe \in ParserInputs
    /\ NoParserCall
    /\ MainRunning
    /\ video_url = U_OTHER
    /\ AUTO_SELECT_MODE = FALSE
    /\ command = <<>>
    /\ fb_command = <<>>
    /\ fs = [n \in {} |-> 1]
    /\ attempt = 0
    /\ delay = 0
    /\ srt_files = <<>>
    /\ selected_file = None
    /\ srt_content = None
    /\ transcript = None
    /\ outcomes = <<>>
    /\ retval = None
    /\ ret_line = 0
    /\ subtitle_files = <<>>
    /\ subtitle_file = None
    /\ content = None
    /\ fb_outcome = "none"
    /\ fb_retval = None
    /\ fb_ret_line = 0
    /\ runs = 0
    /\ fb_calls = 0
    /\ fb_runs = 0
    /\ waits = 0
    /\ cooldowns = 0
    /\ prompts = 0
    /\ choice = None
    /\ created = {}
    /\ written = {}
    /\ rm_failed = {}
    /\ rm_fails = 0

\* A set of seen lines that is kept from the call before.
InitialSeenCarried == seen_lines

\* Lines 117 and 426: seen_lines = set().
InitialSeen == {}

\* One call of a parser on text: its locals after the loop, and what it
\* returns; parse_srt strips the whole text before it splits it (line 119),
\* parse_vtt does not (line 428).
ParserCall(isVtt, text) ==
    /\ pc = "parser"
    /\ parser' = IF isVtt THEN "vtt" ELSE "srt"
    /\ parser_arg' = text
    /\ lines' = ParseLoop(Split(IF isVtt THEN text ELSE Strip(text), "\n"),
                           1, <<>>, InitialSeen, isVtt)
    /\ seen_lines' = InitialSeen \cup Range(lines')
    /\ parser_result' = Join(lines', <<" ">>)
    /\ first_call' = IF first_call = None
                     THEN <<parser', text, parser_result'>>
                     ELSE first_call
    /\ earlier' = IF parser = "none" THEN {} ELSE earlier \cup {parser_arg}
    /\ UNCHANGED <<pc, probe, mainVars, written, argVars, fs, attempt, delay,
                   selVars, outcomes, retval, ret_line, fbVars, runs, waits,
                   created, rmVars>>

\* Lines 111-133: parse_srt called on the text under test or on another.
CallParseSrt == \E text \in {probe} \cup Warmups : ParserCall(FALSE, text)

\* Lines 421-445: parse_vtt called on the text under test or on another.
CallParseVtt == \E text \in {probe} \cup Warmups : ParserCall(TRUE, text)

ParserNext == CallParseSrt \/ CallParseVtt

ParserSpec == ParserInit /\ [][ParserNext]_vars

(***************************************************************************)
(* Properties of the acquisition controller                                *)
(***************************************************************************)

Last(q) == q[Len(q)]

\* The primary invocations so far, the latest of them of kind k.
LatestIs(k) == outcomes # <<>> /\ Last(outcomes) = k

\* The transcripts the parsers can produce from the contents.
Transcripts ==
    {parse_srt(Contents[i]) : i \in ContentIds} \cup {parse_vtt(Contents[i]) : i \in ContentIds}

FallbackExactlyOnExhaustedRateLimit ==
    /\ [](fb_calls <= 1)
    /\ []((fb_calls = 1) <=> (Len(outcomes) = max_retries /\ LatestIs("rate_limit")))
    /\ []((pc = "done" /\ fb_calls = 1) => (retval = fb_retval /\ ret_line = 276))
    /\ [][fb_calls = 1 => (runs' = runs /\ outcomes' = outcomes /\ fb_calls' = 1)]_vars

\* A timeout, a plain error and a rate-limit error, in this order; the
\* fallback produced a transcript, which was returned.
FallbackExactlyOnExhaustedRateLimitWitness ==
    /\ pc = "done"
    /\ outcomes = <<"timeout", "error", "rate_limit">>
    /\ fb_calls = 1
    /\ retval \in Transcripts
    /\ retval = fb_retval

\* C3: if the last attempt ends in a timeout or in an error that is not a
\* rate limit, the call returns None and the fallback was never called,
\* whatever the earlier attempts ended in.
ExhaustedWithoutRateLimitFails ==
    (pc = "done" /\ Len(outcomes) = max_retries
       /\ Last(outcomes) \in {"timeout", "error"})
    => (retval = None /\ ret_line \in {287, 302} /\ fb_calls = 0 /\ fb_runs = 0)

\* Two rate-limit errors, then an error that is not a rate limit.
ExhaustedWithoutRateLimitFailsWitness ==
    /\ pc = "done"
    /\ outcomes = <<"rate_limit", "rate_limit", "error">>
    /\ retval = None
    /\ fb_calls = 0

\* C4: a timeout or a non-zero exit of attempt k < max_retries - 1 leads to
\* the head of the loop with attempt k + 1 (no return, no fallback), the
\* head of the loop leads to the invocation of that same attempt, and the
\* n-th invocation is made by attempt n - 1, after n - 1 retryable failures.
RetryableFailureRetries ==
    /\ [][(pc = "run" /\ attempt < max_retries - 1 /\ runs' = runs + 1
             /\ Last(outcomes') \in {"timeout", "rate_limit", "error"})
          => (pc' = "loop" /\ attempt' = attempt + 1 /\ fb_calls' = fb_calls
                /\ ret_line' = 0)]_vars
    /\ [][(pc = "loop" /\ attempt < max_retries)
          => (pc' \in {"sleep", "run"} /\ attempt' = attempt /\ runs' = runs)]_vars
    /\ [][pc = "sleep" => (pc' = "run" /\ attempt' = attempt /\ runs' = runs)]_vars
    /\ [](pc = "run" =>
            /\ attempt = runs
            /\ attempt = Len(outcomes)
            /\ attempt < max_retries
            /\ \A i \in 1..Len(outcomes) :
                  outcomes[i] \in {"timeout", "rate_limit", "error"})

\* Attempt 2 is about to invoke the tool, after a rate-limit error of
\* attempt 0 and a timeout of attempt 1.
RetryableFailureRetriesWitness ==
    /\ pc = "run"
    /\ attempt = 2
    /\ outcomes = <<"rate_limit", "timeout">>

\* C5: in auto mode every call ends, after at most max_retries primary
\* invocations and at most one fallback invocation, and never waits at the
\* prompt.
AutoModeTerminates ==
    /\ [](runs <= max_retries /\ fb_runs <= 1)
    /\ [](AUTO_SELECT_MODE => pc # "prompt")
    /\ (AUTO_SELECT_MODE ~> (pc = "done"))

\* An auto-mode call that ended after three primary invocations and the
\* fallback invocation.
AutoModeTerminatesWitness ==
    /\ pc = "done"
    /\ AUTO_SELECT_MODE
    /\ runs = max_retries
    /\ fb_runs = 1

\* C6 as stated: attempt 0 is invoked without a wait; attempt k >= 1 is
\* invoked after exactly one wait d of its own, 2^k <= d < 2^k + 2.
BackoffScheduleStrict ==
    /\ pc = "sleep" =>
          /\ attempt >= 1
          /\ waits = attempt
          /\ runs = attempt
          /\ Pow2(attempt) * Unit <= delay
          /\ delay < (Pow2(attempt) + 2) * Unit
    /\ pc = "run" => (waits = attempt /\ runs = attempt)

\* C6, amended: attempt 0 is invoked without a wait; attempt k >= 1 is
\* invoked after exactly one wait d of its own, 2^k <= d <= 2^k + 2 (the
\* float sum of 2^k and a jitter just below 2 rounds to 2^k + 2).
BackoffSchedule ==
    /\ pc = "sleep" =>
          /\ attempt >= 1
          /\ waits = attempt
          /\ runs = attempt
          /\ Pow2(attempt) * Unit <= delay
          /\ delay <= (Pow2(attempt) + 2) * Unit
    /\ pc = "run" => (waits = attempt /\ runs = attempt)

\* The wait before attempt 2, after a timeout and a rate-limit error, is
\* six seconds.
BackoffScheduleWitness ==
    /\ pc = "sleep"
    /\ attempt = 2
    /\ outcomes = <<"timeout", "rate_limit">>
    /\ delay = (Pow2(2) + 2) * Unit

\* C7: after a primary invocation exited zero there is no further
\* invocation, primary or fallback; the call goes on to select and read, and
\* it returns None unless it returns the transcript at line 256: no
\* candidate file (213), no selection (220), empty content (233), empty
\* parse result (260), an exception (291).
ZeroExitIsFinal ==
    /\ [](LatestIs("ok") =>
            /\ pc \in {"select", "prompt", "read", "done"}
            /\ fb_calls = 0
            /\ fb_runs = 0)
    /\ []((pc = "done" /\ LatestIs("ok")) =>
            /\ ret_line \in {213, 220, 233, 256, 260, 291}
            /\ ret_line # 256 => retval = None)
    /\ [][LatestIs("ok") => (runs' = runs /\ outcomes' = outcomes /\ attempt' = attempt)]_vars
    /\ [][(pc = "run" /\ LatestIs("ok")' /\ srt_files' = <<>>)
          => (pc' = "done" /\ ret_line' = 213)]_vars
    /\ [][(pc = "read" /\ Strip(srt_content') = <<>>)
          => (pc' = "done" /\ ret_line' \in {233, 291})]_vars

\* Attempt 1 exited zero after a rate-limit error of attempt 0; the
\* selected file was empty, and the call returned None with an attempt left.
ZeroExitIsFinalWitness ==
    /\ pc = "done"
    /\ outcomes = <<"rate_limit", "ok">>
    /\ ret_line = 233
    /\ retval = None

\* C8: what get_transcript_with_yt_dlp returns is None or a non-empty
\* transcript; what the primary path returns at line 256 is parse_srt of the
\* content of the selected file, one of the candidates of that attempt.
BoundaryValue ==
    /\ [](pc = "done" => (retval = None \/ (retval \in Transcripts /\ retval # <<>>)))
    /\ [](pc = "read" => selected_file \in Range(srt_files))
    /\ [][(pc = "read" /\ ret_line' = 256)
          => retval' = parse_srt(Contents[fs[selected_file]])]_vars

\* The second of two candidates was selected and its transcript returned.
BoundaryValueWitness ==
    /\ pc = "done"
    /\ ret_line = 256
    /\ Len(srt_files) = 2
    /\ selected_file = srt_files[2]
    /\ retval = parse_srt(srt_content)

\* C9: a call of try_fallback_mode makes one invocation, and none follows
\* it; a timeout, a non-zero exit, an exception, no file, empty content and
\* an empty parse result each make it return None, which the call returns.
FallbackSingleShot ==
    /\ [](fb_runs <= fb_calls /\ fb_calls <= 1)
    /\ [](pc \in {"fb_read", "done"} /\ fb_calls = 1 => fb_runs = 1)
    /\ []((pc = "done" /\ fb_calls = 1
             /\ (\/ fb_outcome # "ok"
                 \/ subtitle_files = <<>>
                 \/ content = None
                 \/ Strip(content) = <<>>
                 \/ FallbackParse(subtitle_file, content) = <<>>
                 \/ fb_ret_line \in {353, 361, 381, 401, 409, 412}))
          => (fb_retval = None /\ retval = None))
    /\ [][fb_runs = 1 => (runs' = runs /\ fb_runs' = 1 /\ fb_calls' = 1
                            /\ attempt' = attempt)]_vars

\* The fallback invocation exited zero and its file had cues without text.
FallbackSingleShotWitness ==
    /\ pc = "done"
    /\ fb_outcome = "ok"
    /\ fb_ret_line = 401
    /\ Strip(content) # <<>>
    /\ retval = None

\* C10 as stated: when the fallback invocation exited zero and files were
\* found, the file read is the first of them, a .vtt file if there is one;
\* it is parsed by parse_srt if its name ends in .srt and by parse_vtt
\* otherwise; a non-empty parser result is what is returned; and after
\* rate-limit errors of every primary attempt and a .vtt file the call
\* returns parse_vtt of its content and no fallback file remains.
FallbackReturnsParserResult ==
    (pc = "done" /\ fb_outcome = "ok" /\ subtitle_files # <<>> /\ content # None)
    => /\ subtitle_file = subtitle_files[1]
       /\ (\E i \in 1..Len(subtitle_files) : EndsWith(subtitle_files[i], <<".","v","t","t">>))
             => EndsWith(subtitle_file, <<".","v","t","t">>)
       /\ (Strip(content) # <<>> /\ FallbackParse(subtitle_file, content) # <<>>)
             => retval = FallbackParse(subtitle_file, content)
       /\ (/\ outcomes = <<"rate_limit", "rate_limit", "rate_limit">>
           /\ EndsWith(subtitle_file, <<".","v","t","t">>)
           /\ Strip(content) # <<>>
           /\ parse_vtt(content) # <<>>)
             => (retval = parse_vtt(content)
                 /\ GlobSet(fs, P_FB_ANY) \cap created = {})

(***************************************************************************)
(* Properties of the command lines                                         *)
(***************************************************************************)

\* The command carries the single-item option exactly when the URL is
\* classified as a playlist URL.
Guarded(cmd, url) ==
    (NO_PLAYLIST \in Range(CommandOptions(cmd))) <=> check_if_playlist_url(url)[1]

\* C11: every invocation of the external tool, each primary attempt and the
\* fallback invocation, runs a command that contains --no-playlist if and
\* only if the URL is classified as playlist-scoped; the URL
\* watch?v=ABC123&list=PL1 is classified as a playlist with video id ABC123
\* and playlist id PL1, and its commands carry the option.
SingleItemGuard ==
    /\ [][/\ runs' = runs + 1 =>
                /\ attempt \in 0..(max_retries - 1)
                /\ Guarded(command, video_url)
          /\ fb_runs' = fb_runs + 1 => Guarded(fb_command, video_url)]_vars
    /\ [](video_url = U_PLAYLIST =>
             /\ check_if_playlist_url(video_url)
                   = <<TRUE, <<"P","L","1">>, <<"A","B","C","1","2","3">>>>
             /\ NO_PLAYLIST \in Range(CommandOptions(command))
             /\ pc \in {"fallback", "fb_read"} =>
                   NO_PLAYLIST \in Range(CommandOptions(fb_command)))

\* All three primary attempts and the fallback invocation ran for the
\* playlist URL, each with the option in its command.
SingleItemGuardWitness ==
    /\ video_url = U_PLAYLIST
    /\ runs = max_retries
    /\ fb_runs = 1
    /\ NO_PLAYLIST \in Range(CommandOptions(command))
    /\ NO_PLAYLIST \in Range(CommandOptions(fb_command))

(***************************************************************************)
(* Properties of the caption parsers                                       *)
(***************************************************************************)

\* The latest parser call was on the given text.
Parsed(p, text) == parser = p /\ parser_arg = text

\* Whether the latest parser call discards a line of its text, and what it
\* makes of a line it does not discard.
Discards(raw_line) ==
    IF parser = "vtt" THEN VttSkips(Strip(raw_line)) ELSE SrtSkips(Strip(raw_line))

CleanedLine(raw_line) == Strip(SubTags(Strip(raw_line)))

\* The lines of the text of the latest parser call.
ArgLines == Split(parser_arg, "\n")

\* The indexes of the lines of the text whose cleaned form is x and that the
\* parser does not discard.
Occurrences(x) ==
    {k \in 1..Len(ArgLines) : ~Discards(ArgLines[k]) /\ CleanedLine(ArgLines[k]) = x}

FirstOccurrence(x) ==
    CHOOSE k \in Occurrences(x) : \A m \in Occurrences(x) : k <= m

\* C12: after a call of parse_srt or parse_vtt on any text, the list of kept
\* lines holds no line twice (compared exactly, case included), holds every
\* cleaned line of the text, and holds them in the order of their first
\* occurrence in the text; two cues that both carry "Hello world" give the
\* output "Hello world".
Deduplication ==
    parser # "none" =>
       /\ \A i, j \in 1..Len(lines) : lines[i] = lines[j] => i = j
       /\ \A k \in 1..Len(ArgLines) :
             ~Discards(ArgLines[k]) /\ CleanedLine(ArgLines[k]) # <<>>
                => CleanedLine(ArgLines[k]) \in Range(lines)
       /\ \A i \in 1..Len(lines) : Occurrences(lines[i]) # {}
       /\ \A i, j \in 1..Len(lines) :
             i < j => FirstOccurrence(lines[i]) < FirstOccurrence(lines[j])
       /\ Parsed("srt", TwoCues) => parser_result = CaptionLine.hello

\* The two cues were parsed by parse_srt, and the line they carry is kept
\* once.
DeduplicationWitness ==
    /\ Parsed("srt", TwoCues)
    /\ lines = <<CaptionLine.hello>>
    /\ parser_result = CaptionLine.hello

\* Inline markup: a "<", one or more characters other than ">", then ">".
HasMarkup(s) ==
    \E i, j \in 1..Len(s) :
       /\ s[i] = "<"
       /\ s[j] = ">"
       /\ i + 1 < j
       /\ \A k \in (i + 1)..(j - 1) : s[k] # ">"

\* Positions i < j of a line hold a tag: "<", then one or more characters
\* that are no angle brackets, then ">".
IsTag(line, i, j) ==
    /\ line[i] = "<"
    /\ line[j] = ">"
    /\ i + 1 < j
    /\ \A k \in (i + 1)..(j - 1) : line[k] \notin {"<", ">"}

\* A well-formed text: on each of its lines every angle bracket belongs to
\* a tag that opens and closes on that line.
WellFormed(text) ==
    \A n \in 1..Len(Split(text, "\n")) :
       LET line == Split(text, "\n")[n]
       IN  \A p \in 1..Len(line) :
              /\ line[p] = "<" => \E j \in 1..Len(line) : IsTag(line, p, j)
              /\ line[p] = ">" => \E i \in 1..Len(line) : IsTag(line, i, p)

\* C13: after a call of parse_srt or parse_vtt on a well-formed text, the
\* returned string holds no inline markup of the form <...>.
TagStripping ==
    parser # "none" /\ WellFormed(parser_arg) => ~HasMarkup(parser_result)

\* parse_vtt was called on a well-formed text with tags in it and returned
\* the text of the tagged line, and so was parse_srt.
TagStrippingWitness ==
    /\ WellFormed(parser_arg)
    /\ HasMarkup(parser_arg)
    /\ \/ Parsed("vtt", CaptionLine.tagdigits) /\ parser_result = <<"1", "2">>
       \/ Parsed("srt", CaptionLine.tagged) /\ parser_result = CaptionLine.hi

\* C14: after a call of parse_srt or parse_vtt on any text, no kept line is
\* empty, purely numeric or holds the cue-timing delimiter "-->", also when
\* the line is numeric or holds the delimiter only once its tags are gone.
NoNonTextLines ==
    parser # "none" =>
       \A i \in 1..Len(lines) :
          /\ lines[i] # <<>>
          /\ ~IsDigitStr(lines[i])
          /\ ~Contains(lines[i], W_ARROW)

\* C15: a parser call on a text returns what the first call of all returned
\* when that was a call of the same parser on the same text, whatever calls
\* came in between; the set of seen lines of a call holds the lines of that
\* call only.
ParsersArePure ==
    /\ parser # "none" => seen_lines = Range(lines)
    /\ first_call # None /\ Parsed(first_call[1], first_call[2])
          => parser_result = first_call[3]

\* The first call was on the text under test, a call on another text that
\* shares a line with it came next, and the latest call is again on the
\* text under test, by the same parser as the first.
ParsersArePureWitness ==
    /\ probe = Join(<<CaptionLine.hello, CaptionLine.hi>>, <<"\n">>)
    /\ Parsed("srt", probe)
    /\ first_call = <<"srt", probe, Join(<<CaptionLine.hello, CaptionLine.hi>>, <<" ">>)>>
    /\ earlier = {probe} \cup Warmups
    /\ parser_result = Join(<<CaptionLine.hello, CaptionLine.hi>>, <<" ">>)

(***************************************************************************)
(* Properties of the file selector                                         *)
(***************************************************************************)

\* The places in the candidate list of the files whose name contains the
\* video id of the URL; none when the URL gives no id.
IdCandidates ==
    {i \in 1..Len(srt_files) :
        /\ VideoIdOf[video_url] \notin {None, <<>>}
        /\ Contains(srt_files[i], VideoIdOf[video_url])}

\* The place of the first candidate of least name length.
IsFirstShortest(i) ==
    /\ \A j \in 1..Len(srt_files) : Len(srt_files[i]) <= Len(srt_files[j])
    /\ \A j \in 1..(i - 1) : Len(srt_files[j]) > Len(srt_files[i])

\* C16: called on a non-empty candidate list, the selector returns the only
\* candidate at once when there is one; with more candidates, a video id in
\* the URL and exactly one candidate whose name contains it, it returns that
\* candidate without prompting, in auto mode and in interactive mode; and
\* its result is always a candidate or the no-selection value.
SelectorShortcuts ==
    /\ [][pc = "select" =>
             /\ srt_files # <<>>
             /\ Len(srt_files) = 1 =>
                   /\ pc' = "read"
                   /\ selected_file' = srt_files[1]
             /\ Len(srt_files) > 1 /\ Cardinality(IdCandidates) = 1 =>
                   /\ pc' = "read"
                   /\ \E i \in IdCandidates : selected_file' = srt_files[i]
                   /\ UNCHANGED <<prompts, choice>>]_vars
    /\ [](selected_file = None \/ selected_file \in Range(srt_files))

\* In interactive mode, of three candidates the last one alone carries the
\* video id; it was selected and no prompt was answered.
SelectorShortcutsWitness ==
    /\ ~AUTO_SELECT_MODE
    /\ pc = "read"
    /\ Len(srt_files) = 3
    /\ IdCandidates = {3}
    /\ selected_file = srt_files[3]
    /\ prompts = 0
    /\ choice = None

\* C17: in auto mode the selector's result is fixed by the candidates and
\* the URL: the first candidate whose name contains the video id when there
\* is one, and otherwise the candidate of least name length, the first in
\* the candidate order among those of equal length.
AutoSelectionDeterministic ==
    [][pc = "select" /\ AUTO_SELECT_MODE =>
          /\ pc' = "read"
          /\ \E i \in 1..Len(srt_files) :
                /\ selected_file' = srt_files[i]
                /\ IdCandidates = {} => IsFirstShortest(i)
                /\ IdCandidates # {} =>
                      i \in IdCandidates /\ \A j \in 1..(i - 1) : j \notin IdCandidates
          /\ \A i, j \in 1..Len(srt_files) : srt_files[i] = srt_files[j] => i = j]_vars

\* In auto mode no candidate carries the video id, the second and the third
\* candidate have the least name length, and the second was selected.
AutoSelectionDeterministicWitness ==
    /\ AUTO_SELECT_MODE
    /\ pc = "read"
    /\ Len(srt_files) = 3
    /\ IdCandidates = {}
    /\ Len(srt_files[2]) = Len(srt_files[3])
    /\ Len(srt_files[2]) < Len(srt_files[1])
    /\ selected_file = srt_files[2]

\* The answer at the prompt is a whole number within the candidate list.
InRange(answer) ==
    /\ IsInt(answer)
    /\ 1 <= ParseInt(answer)
    /\ ParseInt(answer) <= Len(srt_files)

\* C18: at the prompt (several candidates, no id match, auto mode off) a
\* number n in range returns candidate n, an empty answer returns the
\* candidate of least name length, any other answer prompts again without
\* returning, and an interrupt gives the no-selection value, for which the
\* acquisition returns the failure value after its cleanup; the prompt is
\* left with a file only after an answer in range or an empty one.
InteractiveSelection ==
    [][pc = "prompt" =>
          /\ Len(srt_files) > 1 /\ IdCandidates = {} /\ ~AUTO_SELECT_MODE
          /\ pc' \in {"prompt", "read", "done"}
          /\ pc' = "read" =>
                /\ choice' # None
                /\ InRange(choice') \/ choice' = <<>>
                /\ InRange(choice') => selected_file' = srt_files[ParseInt(choice')]
                /\ choice' = <<>> =>
                      \E i \in 1..Len(srt_files) :
                         IsFirstShortest(i) /\ selected_file' = srt_files[i]
          /\ pc' = "prompt" =>
                /\ choice' # None
                /\ ~InRange(choice') /\ choice' # <<>>
                /\ UNCHANGED <<selected_file, retval, ret_line, fs>>
          /\ choice' # None /\ (InRange(choice') \/ choice' = <<>>) => pc' = "read"
          /\ pc' = "done" =>
                /\ retval' = None
                /\ ret_line' \in {220, 291}
                /\ ret_line' = 220 => selected_file' = None
                /\ GlobSet(fs', FinallyPattern) \subseteq rm_failed']_vars

\* After an answer that is no number in range, the third candidate was
\* asked for by its number and is the selected file, not the shortest one.
InteractiveSelectionWitness ==
    /\ pc = "read"
    /\ prompts = 1
    /\ choice = <<"3">>
    /\ Len(srt_files) = 3
    /\ selected_file = srt_files[3]
    /\ ~IsFirstShortest(3)

(***************************************************************************)
(* Properties of main                                                      *)
(***************************************************************************)

\* C19: the process ends with status 0 exactly when the acquisition
\* returned a transcript, and with another status when it returned the
\* failure value; pyperclip.copy is called at most once, and only with a
\* transcript that was obtained and printed; a failure of the clipboard is
\* reported and leaves the status 0.
ExitStatus ==
    /\ pc = "exit" =>
          /\ exit_code \in 0..255
          /\ exit_code = 0 <=> retval \in Transcripts \ {<<>>}
          /\ retval = None => exit_code # 0
    /\ pc # "exit" => exit_code = None /\ copies = 0
    /\ copies <= 1
    /\ copies = 1 =>
          /\ retval \in Transcripts \ {<<>>}
          /\ ret_line \in {256, 276}
          /\ printed = retval
    /\ clipboard # None => clipboard = retval /\ copies = 1
    /\ warned => exit_code = 0 /\ copies = 1 /\ clipboard = None

\* The acquisition returned a transcript, which was printed; the clipboard
\* failed, the warning was printed and the process ended with status 0.
ExitStatusWitness ==
    /\ pc = "exit"
    /\ retval \in Transcripts
    /\ printed = retval
    /\ warned
    /\ exit_code = 0

(***************************************************************************)
(* Properties of the files collected and removed                           *)
(***************************************************************************)

\* C20: the files handed to the selector after a zero exit are all files
\* that this invocation of the external tool wrote, none left by an earlier
\* attempt of the call and none that was in the working directory before
\* the call; and every file the acquisition removes is one the external
\* tool created during the call.
CandidatesAreOwnOutput ==
    /\ [](pc = "select" => Range(srt_files) \subseteq written)
    /\ [][\A n \in DOMAIN fs \ DOMAIN fs' : n \in created']_vars

(***************************************************************************)
(* Removal errors and the acquisition result                               *)
(***************************************************************************)

\* The primary path read the selected file, its content parses to a
\* non-empty transcript, and that transcript is what the call returned.
PrimaryResultUnmasked ==
    (/\ pc = "done"
     /\ srt_content # None
     /\ Strip(srt_content) # <<>>
     /\ parse_srt(srt_content) # <<>>)
    => retval = parse_srt(srt_content)

\* The fallback path read its file, the content parses to a non-empty
\* transcript, and that transcript is what both calls returned.
FallbackResultUnmasked ==
    (/\ pc = "done"
     /\ content # None
     /\ Strip(content) # <<>>
     /\ FallbackParse(subtitle_file, content) # <<>>)
    => (/\ fb_retval = FallbackParse(subtitle_file, content)
        /\ retval = fb_retval)

\* C21 as stated: a failure to delete a caption file never masks the
\* acquisition result: if the content of the selected file was read and
\* parses to a non-empty transcript, the primary path and the fallback path
\* both return that transcript, even when removing a file (the selected file
\* included) fails.
RemovalNeverMasksResult ==
    /\ PrimaryResultUnmasked
    /\ FallbackResultUnmasked

(***************************************************************************)
(* The two parsers compared                                                *)
(***************************************************************************)

\* No trimmed line of the text starts with the header token, the comment
\* marker or an opening angle bracket.
Plain(text) ==
    LET raw == Split(text, "\n")
    IN  \A i \in 1..Len(raw) :
           LET line == Strip(raw[i])
           IN  /\ ~StartsWith(line, <<"W","E","B","V","T","T">>)
               /\ ~StartsWith(line, <<"N","O","T","E">>)
               /\ ~StartsWith(line, <<"<">>)

\* This step is a call of one parser on the text the other parser was
\* called on just before.
OtherParserSameText ==
    /\ parser # "none"
    /\ parser' # parser
    /\ parser_arg' = parser_arg

\* In such a step, the lines parse_srt kept and the lines parse_vtt kept.
SrtKept == IF parser = "srt" THEN lines ELSE lines'
VttKept == IF parser = "vtt" THEN lines ELSE lines'

\* q can be obtained from r by deleting elements.
RECURSIVE IsSubsequence(_, _)
IsSubsequence(q, r) ==
    IF q = <<>> THEN TRUE
    ELSE IF r = <<>> THEN FALSE
    ELSE IF Head(q) = Head(r) THEN IsSubsequence(Tail(q), Tail(r))
    ELSE IsSubsequence(q, Tail(r))

\* The first half of C22: on a text none of whose trimmed lines starts with
\* WEBVTT, NOTE or '<', parse_srt and parse_vtt return the same string.
ParsersAgreeOnPlainText ==
    [][(OtherParserSameText /\ Plain(parser_arg))
          => parser_result' = parser_result]_vars

\* C22 as stated: parse_srt and parse_vtt return the same string on every
\* text none of whose trimmed lines starts with WEBVTT, NOTE or '<'; and on
\* any text the lines kept by parse_vtt form a subsequence of the lines kept
\* by parse_srt.
ParsersAgreeStrict ==
    /\ ParsersAgreeOnPlainText
    /\ [][OtherParserSameText => IsSubsequence(VttKept, SrtKept)]_vars

\* C22, amended: parse_srt and parse_vtt return the same string on every
\* text none of whose trimmed lines starts with WEBVTT, NOTE or '<'; and on
\* any text every line kept by parse_vtt is a line kept by parse_srt (the
\* order of the lines may differ).
ParsersAgree ==
    /\ ParsersAgreeOnPlainText
    /\ [][OtherParserSameText => Range(VttKept) \subseteq Range(SrtKept)]_vars

\* parse_srt, then parse_vtt, were called on a text whose first line is a
\* tagged form of its third: parse_vtt skips the first line and keeps the
\* third, parse_srt keeps the first and drops the third, so both keep the
\* same two lines, in opposite orders.
ParsersAgreeWitness ==
    /\ probe = RepeatedAfterTag
    /\ first_call = <<"srt", probe, Join(<<CaptionLine.hi, CaptionLine.hello>>, <<" ">>)>>
    /\ earlier = {probe}
    /\ Parsed("vtt", probe)
    /\ lines = <<CaptionLine.hello, CaptionLine.hi>>

====
